---- MODULE Spec2Model ----
(***************************************************************************)
(* The signaling and scene-state server of apps/server/src/index.ts as a   *)
(* state machine: one action per socket.io event handler, plus the         *)
(* continuation of the allSockets() promise that the disconnect handler    *)
(* schedules.                                                              *)
(***************************************************************************)
EXTENDS Integers, Sequences, FiniteSets, TLC

(***************************************************************************)
(* Bounds of the model.                                                    *)
(***************************************************************************)
\* connections that may ever be opened in the room-lifecycle specification
NumPeers == 3
\* connections that may ever be opened in the scene-editing specification
NumEditors == 2
\* chunks of one upload
MaxChunks == 2
\* scene actions one client sends in the replica specification
MaxSends == 2
\* join events one client emits on a connection
MaxJoins == 2

(***************************************************************************)
(* JavaScript values.  Every value is a record tagged with its type, so    *)
(* that null, undefined, "" and objects stay distinct and comparable.      *)
(***************************************************************************)
Null == [t |-> "null"]
Undefined == [t |-> "undefined"]
Str(s) == [t |-> "string", v |-> s]
Obj(fields) == [t |-> "object", v |-> fields]

\* ToBoolean of a value: null, undefined and the empty string are falsy
Truthy(v) == v.t \notin {"null", "undefined"} /\ (v.t = "string" => v.v # "")

\* v.length: a number for a string, a TypeError for null and undefined
Throws(v) == v.t \in {"null", "undefined"}
Length(v) == IF v.t = "string" THEN Len(v.v) ELSE 0

(***************************************************************************)
(* Record<string, T>: a function whose domain is the set of present keys.  *)
(***************************************************************************)
EmptyMap == [k \in {} |-> Null]
Has(m, k) == k \in DOMAIN m
Put(m, k, v) == [x \in DOMAIN m \cup {k} |-> IF x = k THEN v ELSE m[x]]
Delete(m, k) == [x \in DOMAIN m \ {k} |-> m[x]]

(***************************************************************************)
(* Identifiers.  socket.id and roomId are both strings and share the       *)
(* adapter's room namespace: every socket sits in the room named by its    *)
(* own id.                                                                 *)
(***************************************************************************)
PeerName == <<"p1", "p2", "p3", "p4", "p5">>
Peers == {PeerName[i] : i \in 1..NumPeers}
Editors == {PeerName[i] : i \in 1..NumEditors}
\* the two concurrent editors of the replica specification
Replicas == {PeerName[1], PeerName[2]}
\* the room ids clients pass to join: two plain names in the room-lifecycle
\* specification, one in the scene-editing specification, and a plain name and
\* one that equals a socket id in the shared-namespace specification
RoomIds == {"r1", "r2"}
SceneRoomIds == {"r1"}
SharedIds == {"r1", PeerName[1]}
AllRooms == RoomIds \cup {PeerName[i] : i \in 1..Len(PeerName)}

VARIABLES
  sockets,      \* ids of the connected sockets (io.sockets)
  closed,       \* ids of the sockets that have disconnected (an id is never reused)
  rooms,        \* the adapter's roster: room name -> set of socket ids
  roomScenes,   \* roomId -> SceneState
  socketRooms,  \* socket.id -> roomId
  microtasks,   \* pending continuations of allSockets().then, oldest first
  emitted,      \* the messages the last handler emitted, in order
  last,         \* the last event handled: its type, socket, room, action and ack
  lastLoaded,   \* roomId -> payload of the last loadModel acknowledged with success
  uploadProgress, \* <<socket.id, roomId>> -> [received, total]
  outbox,       \* socket.id -> the messages the client emitted that the server has not handled
  inbox,        \* socket.id -> the scene messages emitted to the client that it has not handled
  client,       \* socket.id -> the scene the client's page shows (transformRef, cameraRef)
  sentLog,      \* socket.id -> the scene actions the client has sent, in order
  applied,      \* the scene actions the server acknowledged with success, in order
  received,     \* socket.id -> the scene:update messages the client has handled, in order
  isLocalUpdateRef, \* socket.id -> the page's mark that its own gesture update is under way
  timeouts,     \* socket.id -> the callbacks the client passed to setTimeout that have not run
  sceneInit,    \* socket.id -> the snapshot of the scene:init the client handled (Null: none)
  peerConnections, \* socket.id -> remote id -> signalling state of the RTCPeerConnection
  offers,       \* <<from, to>> -> the number of offers the client from has sent to to
  joinsSent     \* socket.id -> the number of join events the client has emitted

serverVars == <<sockets, closed, rooms, roomScenes, socketRooms, microtasks, emitted, last,
                lastLoaded, uploadProgress>>
clientVars == <<outbox, inbox, client, sentLog, applied, received, isLocalUpdateRef, timeouts, sceneInit,
                peerConnections, offers, joinsSent>>
vars == <<sockets, closed, rooms, roomScenes, socketRooms, microtasks, emitted, last, lastLoaded,
          uploadProgress, outbox, inbox, client, sentLog, applied, received, isLocalUpdateRef,
          timeouts, sceneInit, peerConnections, offers, joinsSent>>

(***************************************************************************)
(* SceneState and SceneAction.                                             *)
(***************************************************************************)
EmptyScene == [model |-> Null, modelMetadata |-> Null, transform |-> Null, camera |-> Null]

Action(type, payload, metadata, transform) ==
  [type |-> type, payload |-> payload, metadata |-> metadata, transform |-> transform]

NoAction == [type |-> "", payload |-> Undefined, metadata |-> Undefined, transform |-> Undefined]
NoAck == [success |-> FALSE, error |-> "none"]
Ack(ok, err) == [success |-> ok, error |-> err]

\* The record of a handled event.  scene and members are the SceneState and the
\* roster of the event's room as the handler found them (Undefined: no record).
Event(type, peer, room, action, ack) ==
  [ type |-> type, peer |-> peer, room |-> room, action |-> action, ack |-> ack,
    scene |-> IF room \in DOMAIN roomScenes THEN roomScenes[room] ELSE Undefined,
    members |-> IF room \in DOMAIN rooms THEN rooms[room] ELSE {} ]

\* one emit: the event name, the sockets it is delivered to and its payload
Msg(ev, to, data) == [ev |-> ev, to |-> to, data |-> data]

(***************************************************************************)
(* The transport: socket.io's adapter and Node's event loop.               *)
(***************************************************************************)
\* socket.join(roomId): the socket is added to the room; rooms it is already in are kept
SocketJoin(roster, p, roomId) == [roster EXCEPT ![roomId] = @ \cup {p}]

\* leaveAll(), which socket.io runs before it emits "disconnect"
LeaveAll(roster, p) == [r \in DOMAIN roster |-> roster[r] \ {p}]

\* io.in(roomId): every socket of the room
InRoom(roster, roomId) == roster[roomId]

\* socket.to(roomId): the room without the sender (without the room named socket.id)
Others(roster, p, roomId) == roster[roomId] \ (roster[p] \cup {p})

\* A handler runs to completion, and the continuation of the already resolved
\* allSockets() promise runs before the event loop dispatches the next event.
EventLoopIdle == microtasks = <<>>

\* An exception that leaves a handler is an uncaught exception: index.ts installs
\* no handler for it and the process ends.
Running == last.type # "uncaughtException"

\* reading a property of null or undefined throws a TypeError
Nullish(v) == v = Null \/ v = Undefined

(***************************************************************************)
(* socket.on("join")                                                       *)
(***************************************************************************)
\* faulty variant: every join starts the room from an empty state
InitRoomAlways(scenes, roomId) == Put(scenes, roomId, EmptyScene)

\* Initialize room if it doesn't exist
InitRoom(scenes, roomId) ==
  IF ~Has(scenes, roomId) THEN Put(scenes, roomId, EmptyScene) ELSE scenes

\* faulty variant: the state is replayed as soon as any of its fields is set
HasAnyState(sceneState) ==
  Truthy(sceneState.model) \/ Truthy(sceneState.transform) \/ Truthy(sceneState.camera)

\* if (sceneState.model)
HasModel(sceneState) == Truthy(sceneState.model)

\* the two messages that replay the room's state to the joiner
Replay(p, sceneState) ==
  IF HasModel(sceneState)
    THEN << Msg("scene:model-incoming", {p},
                [metadata |-> sceneState.modelMetadata, size |-> Length(sceneState.model)]),
            Msg("scene:init", {p},
                [model |-> sceneState.model, transform |-> sceneState.transform,
                 camera |-> sceneState.camera]) >>
    ELSE << >>

Join(p, roomId) ==
  /\ p \in sockets
  /\ Running
  /\ EventLoopIdle
  /\ LET roster == SocketJoin(rooms, p, roomId)
         scenes == InitRoom(roomScenes, roomId)
     IN  /\ rooms' = roster
         /\ socketRooms' = Put(socketRooms, p, roomId)
         /\ roomScenes' = scenes
         /\ emitted' = Replay(p, scenes[roomId])
                         \o << Msg("user-connected", Others(roster, p, roomId), Str(p)) >>
  /\ last' = Event("join", p, roomId, NoAction, NoAck)
  /\ UNCHANGED <<sockets, closed, microtasks, lastLoaded, uploadProgress>>

(***************************************************************************)
(* socket.on("scene:action")                                               *)
(***************************************************************************)
\* faulty variant: loadModel merges into the old state and keeps its pose
LoadModelKeepsPose(old, action) ==
  [ model |-> action.payload,
    modelMetadata |-> IF Truthy(action.metadata)
                        THEN action.metadata
                        ELSE Obj([name |-> "unknown", size |-> Length(action.payload)]),
    transform |-> old.transform,
    camera |-> old.camera ]

\* case "loadModel": the state that replaces the room's SceneState (old, the state
\* it replaces, is not read)
LoadModelState(old, action) ==
  [ model |-> action.payload,
    modelMetadata |-> IF Truthy(action.metadata)
                        THEN action.metadata
                        ELSE Obj([name |-> "unknown", size |-> Length(action.payload)]),
    transform |-> Null,
    camera |-> Null ]

\* faulty variant: clear drops the model and leaves transform and camera
ClearModelOnly(old) == [old EXCEPT !.model = Null, !.modelMetadata = Null]

\* case "clear": the state that replaces the room's SceneState (old is not read)
ClearState(old) == EmptyScene

\* faulty variant: the camera case writes the transform field
SetCameraAsTransform(old, payload) == [old EXCEPT !.transform = payload]

\* roomScenes[roomId].camera = action.payload
SetCamera(old, payload) == [old EXCEPT !.camera = payload]

\* faulty variant: the new transform is merged into the stored one, whose rotation stays
SetTransformMerged(old, payload) ==
  [old EXCEPT !.transform =
     IF old.transform.t = "object"
       THEN Obj([payload.v EXCEPT !.rotation = old.transform.v.rotation])
       ELSE payload]

\* roomScenes[roomId].transform = action.payload
SetTransform(old, payload) == [old EXCEPT !.transform = payload]

\* modelData.length throws for a missing payload, after the state was replaced
Thrown(action) == action.type = "loadModel" /\ Throws(action.payload)

ApplyAction(scenes, roomId, action) ==
  LET old == IF Has(scenes, roomId) THEN scenes[roomId] ELSE EmptyScene IN
  CASE action.type = "loadModel" -> Put(scenes, roomId, LoadModelState(old, action))
    [] action.type = "camera" ->
         IF Has(scenes, roomId)
           THEN Put(scenes, roomId, SetCamera(scenes[roomId], action.payload))
           ELSE scenes
    [] action.type = "transform" ->
         IF Has(scenes, roomId)
           THEN Put(scenes, roomId, SetTransform(scenes[roomId], action.payload))
           ELSE scenes
    [] action.type = "clear" -> Put(scenes, roomId, ClearState(old))
    [] OTHER -> scenes

\* faulty variant: the sender is the one the client names in the action
SenderFromAction(p, action) == IF "from" \in DOMAIN action THEN action.from ELSE p

\* from: socket.id
Sender(p, action) == p

\* faulty variant: the update goes to the room without the sender
UpdateToOthers(roster, p, roomId, action) ==
  Msg("scene:update", Others(roster, p, roomId), [action |-> action, from |-> Sender(p, action)])

\* io.in(roomId).emit("scene:update", { action, from: socket.id })
Update(roster, p, roomId, action) ==
  Msg("scene:update", InRoom(roster, roomId), [action |-> action, from |-> Sender(p, action)])

\* io.in(roomId).emit("scene:model-incoming", { metadata, size, from: socket.id })
Incoming(roster, p, roomId, action) ==
  Msg("scene:model-incoming", InRoom(roster, roomId),
      [metadata |-> LoadModelState(EmptyScene, action).modelMetadata,
       size |-> Length(action.payload), from |-> Sender(p, action)])

\* faulty variant: the action is broadcast before the notice
BroadcastsUpdateFirst(roster, p, roomId, action) ==
  CASE action.type = "loadModel" ->
         IF Thrown(action)
           THEN << >>
           ELSE << Update(roster, p, roomId, action), Incoming(roster, p, roomId, action) >>
    [] action.type \in {"camera", "transform", "clear"} -> << Update(roster, p, roomId, action) >>
    [] OTHER -> << >>

\* what the handler emits, in order
Broadcasts(roster, p, roomId, action) ==
  CASE action.type = "loadModel" ->
         IF Thrown(action)
           THEN << >>
           ELSE << Incoming(roster, p, roomId, action), Update(roster, p, roomId, action) >>
    [] action.type \in {"camera", "transform", "clear"} -> << Update(roster, p, roomId, action) >>
    [] OTHER -> << >>

\* faulty variant: the action of a peer that is in no room is acknowledged as done
NotInRoomAckSuccess == Ack(TRUE, "none")

\* callback({ success: false, error: "Not in a room" })
NotInRoomAck == Ack(FALSE, "Not in a room")

\* faulty variant: the default case acknowledges like the four known types
ActionAckDefaultSuccess(action) ==
  IF action.type = "loadModel" /\ Thrown(action) THEN Ack(FALSE, "TypeError") ELSE Ack(TRUE, "none")

\* what the callback is called with
ActionAck(action) ==
  CASE action.type = "loadModel" ->
         IF Thrown(action) THEN Ack(FALSE, "TypeError") ELSE Ack(TRUE, "none")
    [] action.type \in {"camera", "transform", "clear"} -> Ack(TRUE, "none")
    [] OTHER -> Ack(FALSE, "Unknown action")

SceneAction(p, action) ==
  /\ p \in sockets
  /\ Running
  /\ EventLoopIdle
  /\ IF ~Has(socketRooms, p)
       THEN /\ last' = Event("scene:action", p, "", action, NotInRoomAck)
            /\ emitted' = << >>
            /\ UNCHANGED <<roomScenes, lastLoaded>>
       ELSE IF Nullish(action)
       \* action.type is read for the log line before the try block is entered
       THEN /\ last' = Event("uncaughtException", p, socketRooms[p], action, NoAck)
            /\ emitted' = << >>
            /\ UNCHANGED <<roomScenes, lastLoaded>>
       ELSE LET roomId == socketRooms[p] IN
            /\ roomScenes' = ApplyAction(roomScenes, roomId, action)
            /\ emitted' = Broadcasts(rooms, p, roomId, action)
            /\ last' = Event("scene:action", p, roomId, action, ActionAck(action))
            /\ lastLoaded' =
                 IF action.type = "loadModel" /\ ~Thrown(action)
                   THEN Put(lastLoaded, roomId, action.payload)
                   ELSE IF action.type \in {"loadModel", "clear"}
                          THEN Delete(lastLoaded, roomId)
                          ELSE lastLoaded
  /\ UNCHANGED <<sockets, closed, rooms, socketRooms, microtasks, uploadProgress>>

(***************************************************************************)
(* connection, socket.on("disconnect") and the continuation of             *)
(* io.in(roomId).allSockets()                                              *)
(***************************************************************************)
Connect(p) ==
  /\ p \notin sockets \cup closed
  /\ Running
  /\ EventLoopIdle
  /\ sockets' = sockets \cup {p}
  /\ rooms' = SocketJoin(rooms, p, p)
  /\ emitted' = << >>
  /\ last' = Event("connection", p, "", NoAction, NoAck)
  /\ UNCHANGED <<closed, roomScenes, socketRooms, microtasks, lastLoaded, uploadProgress>>

\* Object.keys(uploadProgress).forEach: delete the keys that start with socket.id
PurgeProgress(progress, p) ==
  [key \in {k \in DOMAIN progress : k[1] # p} |-> progress[key]]

Disconnect(p) ==
  /\ p \in sockets
  /\ Running
  /\ EventLoopIdle
  /\ sockets' = sockets \ {p}
  /\ closed' = closed \cup {p}
  /\ LET roster == LeaveAll(rooms, p) IN
     /\ rooms' = roster
     /\ IF Has(socketRooms, p)
          THEN LET roomId == socketRooms[p] IN
               /\ emitted' = << Msg("user-disconnected", Others(roster, p, roomId), Str(p)) >>
               /\ socketRooms' = Delete(socketRooms, p)
               /\ microtasks' = Append(microtasks,
                                       [roomId |-> roomId, clients |-> InRoom(roster, roomId)])
               /\ uploadProgress' = PurgeProgress(uploadProgress, p)
               /\ last' = Event("disconnect", p, roomId, NoAction, NoAck)
          ELSE /\ emitted' = << >>
               /\ last' = Event("disconnect", p, "", NoAction, NoAck)
               /\ UNCHANGED <<socketRooms, microtasks, uploadProgress>>
  /\ UNCHANGED <<roomScenes, lastLoaded>>

\* io.to(data.to): every socket of the room named data.to
SignalTargets(roster, to) == InRoom(roster, to)

\* socket.on("signal"): data.signal.type is read for the log line, then the signal
\* is emitted to the room named data.to
Signal(p, data) ==
  /\ p \in sockets
  /\ Running
  /\ EventLoopIdle
  /\ IF Nullish(data.signal)
       THEN /\ last' = Event("uncaughtException", p, data.to, data.signal, NoAck)
            /\ emitted' = << >>
       ELSE /\ last' = Event("signal", p, data.to, data.signal, NoAck)
            /\ emitted' = << Msg("signal", SignalTargets(rooms, data.to),
                                 [from |-> p, signal |-> data.signal]) >>
  /\ UNCHANGED <<sockets, closed, rooms, roomScenes, socketRooms, microtasks, lastLoaded,
                 uploadProgress>>

\* socket.on("gesture:action"): nothing for a peer that is in no room; data.gesture
\* is read for the log line, then the gesture is emitted to the peer's room
Gesture(p, data) ==
  /\ p \in sockets
  /\ Running
  /\ EventLoopIdle
  /\ IF ~Has(socketRooms, p)
       THEN /\ last' = Event("gesture:action", p, "", data, NoAck)
            /\ emitted' = << >>
       ELSE IF Nullish(data)
       THEN /\ last' = Event("uncaughtException", p, socketRooms[p], data, NoAck)
            /\ emitted' = << >>
       ELSE /\ last' = Event("gesture:action", p, socketRooms[p], data, NoAck)
            /\ emitted' = << Msg("gesture:action", InRoom(rooms, socketRooms[p]),
                                 [gesture |-> data.gesture, from |-> p]) >>
  /\ UNCHANGED <<sockets, closed, rooms, roomScenes, socketRooms, microtasks, lastLoaded,
                 uploadProgress>>

\* faulty variant: the acknowledgment goes to the whole room named in the chunk
ChunkAckToRoom(p, data) == InRoom(rooms, data.roomId)

\* socket.emit("scene:chunk-ack", { index }): to the sender's socket
ChunkAckTargets(p, data) == {p}

\* socket.on("scene:model-chunk"): the parameter is destructured, the entry for
\* socket.id and the chunk's roomId is created if missing, received is set to
\* index + 1 and the chunk is acknowledged
ModelChunk(p, data) ==
  /\ p \in sockets
  /\ Running
  /\ EventLoopIdle
  /\ IF Nullish(data)
       THEN /\ last' = Event("uncaughtException", p, "", data, NoAck)
            /\ emitted' = << >>
            /\ UNCHANGED uploadProgress
       ELSE LET key == <<p, data.roomId>>
                entry == IF Has(uploadProgress, key)
                           THEN uploadProgress[key]
                           ELSE [received |-> 0, total |-> data.total]
            IN  /\ uploadProgress' = Put(uploadProgress, key,
                                         [entry EXCEPT !.received = data.index + 1])
                /\ emitted' = << Msg("scene:chunk-ack", ChunkAckTargets(p, data),
                                     [index |-> data.index]) >>
                /\ last' = Event("scene:model-chunk", p, data.roomId, data, NoAck)
  /\ UNCHANGED <<sockets, closed, rooms, roomScenes, socketRooms, microtasks, lastLoaded>>

\* faulty variant: the record is deleted whoever is still in the room
RoomIsEmptyAlways(clients) == TRUE

\* clients.size === 0
RoomIsEmpty(clients) == clients = {}

\* .then((clients) => { if (clients.size === 0) delete roomScenes[roomId] })
RoomCleanup ==
  /\ Running
  /\ microtasks # << >>
  /\ LET task == Head(microtasks) IN
     /\ roomScenes' = IF RoomIsEmpty(task.clients)
                        THEN Delete(roomScenes, task.roomId) ELSE roomScenes
     /\ lastLoaded' = IF RoomIsEmpty(task.clients)
                        THEN Delete(lastLoaded, task.roomId) ELSE lastLoaded
     /\ last' = Event("cleanup", "", task.roomId, NoAction, NoAck)
  /\ microtasks' = Tail(microtasks)
  /\ emitted' = << >>
  /\ UNCHANGED <<sockets, closed, rooms, socketRooms, uploadProgress>>

(***************************************************************************)
(* The client: hooks/useWebRTC.ts and the room page.  The socket is a      *)
(* websocket, which delivers the messages of a connection in the order     *)
(* they were emitted, in both directions.                                  *)
(***************************************************************************)
\* the page before anything is loaded: no model, transformRef and cameraRef null
EmptyClient == [model |-> Null, transform |-> Null, camera |-> Null]

\* the transform a freshly loaded model reports to the onLoad callback
InitialTransform == Obj([position |-> "0", rotation |-> "0", scale |-> "0"])

\* the switch of handleSceneAction of the room page (a model is shown once
\* scene.loadModel was called with it)
HandleSceneAction(c, action) ==
  CASE action.type = "loadModel" ->
         [c EXCEPT !.model = action.payload, !.transform = InitialTransform]
    [] action.type = "transform" -> [c EXCEPT !.transform = action.payload]
    [] action.type = "camera" -> [c EXCEPT !.camera = action.payload]
    [] action.type = "clear" -> EmptyClient
    [] OTHER -> c

\* onSceneActionRef.current(action), handleSceneAction from its first line: it
\* returns at once while the page marks an update of its own as under way
OnSceneActionRef(c, isLocalUpdate, action) ==
  IF isLocalUpdate THEN c ELSE HandleSceneAction(c, action)

\* onTransformChange and onCameraChange write the page's ref before they send
SetRef(c, action) ==
  CASE action.type = "transform" -> [c EXCEPT !.transform = action.payload]
    [] action.type = "camera" -> [c EXCEPT !.camera = action.payload]
    [] OTHER -> c

\* sendSceneAction: what is emitted; a loadModel gets the file name as metadata
WithMetadata(action) ==
  IF action.type = "loadModel"
    THEN [action EXCEPT !.metadata = Obj([name |-> "model.glb"])]
    ELSE action

\* faulty variant: new messages overtake the ones in flight
EnqueueFront(queue, msgs) == msgs \o queue

\* messages emitted on a connection arrive after the ones emitted before
Enqueue(queue, msgs) == queue \o msgs

\* the events of the scene channel
SceneEvents == {"scene:update", "scene:init", "scene:model-incoming"}

\* what the last handler emitted to socket q on the scene channel, in order
EmittedTo(msgs, q) ==
  LET IsFor(m) == q \in m.to /\ m.ev \in SceneEvents
      Wire(i) == [ev |-> SelectSeq(msgs, IsFor)[i].ev, data |-> SelectSeq(msgs, IsFor)[i].data]
  IN  [i \in 1..Len(SelectSeq(msgs, IsFor)) |-> Wire(i)]

\* io(SIGNALING_SERVER_URL) and s.on("connect"): the client connects and emits join
ClientConnect(p, roomId) ==
  /\ Connect(p)
  /\ outbox' = [outbox EXCEPT ![p] = Enqueue(@, << [ev |-> "join", arg |-> roomId] >>)]
  /\ joinsSent' = [joinsSent EXCEPT ![p] = @ + 1]
  /\ UNCHANGED <<inbox, client, sentLog, applied, received, isLocalUpdateRef, timeouts, sceneInit,
                 peerConnections, offers>>

\* the server handles the oldest message of a connection, a join
ServerJoin(p) ==
  /\ outbox[p] # << >>
  /\ Head(outbox[p]).ev = "join"
  /\ Join(p, Head(outbox[p]).arg)
  /\ outbox' = [outbox EXCEPT ![p] = Tail(@)]
  /\ inbox' = [q \in DOMAIN inbox |-> Enqueue(inbox[q], EmittedTo(emitted', q))]
  /\ UNCHANGED <<client, sentLog, applied, received, isLocalUpdateRef, timeouts, sceneInit,
                 peerConnections, offers, joinsSent>>

\* the server handles the oldest message of a connection, a scene:action
ServerSceneAction(p) ==
  /\ outbox[p] # << >>
  /\ Head(outbox[p]).ev = "scene:action"
  /\ SceneAction(p, Head(outbox[p]).arg)
  /\ outbox' = [outbox EXCEPT ![p] = Tail(@)]
  /\ inbox' = [q \in DOMAIN inbox |-> Enqueue(inbox[q], EmittedTo(emitted', q))]
  /\ applied' = IF last'.type = "scene:action" /\ last'.ack.success
                  THEN Append(applied, [from |-> p, action |-> Head(outbox[p]).arg])
                  ELSE applied
  /\ UNCHANGED <<client, sentLog, received, isLocalUpdateRef, timeouts, sceneInit,
                 peerConnections, offers, joinsSent>>

\* socket.current.emit("scene:action", actionWithMetadata) if the socket is connected
EmitSceneAction(p, action) ==
  IF p \in sockets
    THEN /\ outbox' = [outbox EXCEPT ![p] =
                         Enqueue(@, << [ev |-> "scene:action", arg |-> WithMetadata(action)] >>)]
         /\ sentLog' = [sentLog EXCEPT ![p] = Append(@, action)]
    ELSE UNCHANGED <<outbox, sentLog>>

\* the user moves the model or the camera with the controls, or picks a file:
\* the page writes its ref and calls sendSceneAction, which applies the action
\* locally, then emits it if the socket is connected
SendSceneAction(p, action) ==
  /\ Len(sentLog[p]) < MaxSends
  /\ client' = [client EXCEPT ![p] =
                  OnSceneActionRef(SetRef(@, action), isLocalUpdateRef[p], action)]
  /\ EmitSceneAction(p, action)
  /\ UNCHANGED <<inbox, applied, received, isLocalUpdateRef, timeouts, sceneInit,
                 peerConnections, offers, joinsSent>>
  /\ UNCHANGED serverVars

\* applyAndBroadcastTransform and applyAndBroadcastCamera, the updates a hand
\* gesture makes: the page sets its mark, writes the ref and the scene, calls
\* sendSceneAction (whose local apply returns at the mark) and asks for the
\* mark to be reset after 50 ms
ApplyAndBroadcast(p, action) ==
  /\ Len(sentLog[p]) < MaxSends
  /\ isLocalUpdateRef' = [isLocalUpdateRef EXCEPT ![p] = TRUE]
  /\ client' = [client EXCEPT ![p] = OnSceneActionRef(SetRef(@, action), TRUE, action)]
  /\ EmitSceneAction(p, action)
  /\ timeouts' = [timeouts EXCEPT ![p] = @ \cup {[callback |-> "resetLocalUpdate", action |-> NoAction]}]
  /\ UNCHANGED <<inbox, applied, received, sceneInit,
                 peerConnections, offers, joinsSent>>
  /\ UNCHANGED serverVars

\* setTimeout(() => { isLocalUpdateRef.current = false }, 50) comes due
ResetLocalUpdate(p) ==
  /\ \E t \in timeouts[p] :
       /\ t.callback = "resetLocalUpdate"
       /\ timeouts' = [timeouts EXCEPT ![p] = @ \ {t}]
  /\ isLocalUpdateRef' = [isLocalUpdateRef EXCEPT ![p] = FALSE]
  /\ UNCHANGED <<outbox, inbox, client, sentLog, applied, received, sceneInit,
                 peerConnections, offers, joinsSent>>
  /\ UNCHANGED serverVars

\* s.on("scene:update"): an update whose from is the client's own id is dropped,
\* any other is handed to handleSceneAction
OnSceneUpdate(p) ==
  /\ inbox[p] # << >>
  /\ Head(inbox[p]).ev = "scene:update"
  /\ LET data == Head(inbox[p]).data IN
     /\ client' = [client EXCEPT ![p] =
                     IF data.from = p
                       THEN @
                       ELSE OnSceneActionRef(@, isLocalUpdateRef[p], data.action)]
     /\ received' = [received EXCEPT ![p] = Append(@, data)]
  /\ inbox' = [inbox EXCEPT ![p] = Tail(@)]
  /\ UNCHANGED <<outbox, sentLog, applied, isLocalUpdateRef, timeouts, sceneInit,
                 peerConnections, offers, joinsSent>>
  /\ UNCHANGED serverVars

\* the callbacks s.on("scene:init") passes to setTimeout: the snapshot's
\* transform after 100 ms and its camera after 150 ms, each only if it is set
InitTimeouts(sceneState) ==
  { [callback |-> "initTransform", action |-> Action("transform", sceneState.transform, Undefined, Undefined)] :
      x \in IF Truthy(sceneState.transform) THEN {1} ELSE {} }
  \cup
  { [callback |-> "initCamera", action |-> Action("camera", sceneState.camera, Undefined, Undefined)] :
      x \in IF Truthy(sceneState.camera) THEN {1} ELSE {} }

\* s.on("scene:init"): the snapshot's model is handed to handleSceneAction at
\* once (the message has no metadata field), its transform and camera later
OnSceneInit(p) ==
  /\ inbox[p] # << >>
  /\ Head(inbox[p]).ev = "scene:init"
  /\ LET sceneState == Head(inbox[p]).data IN
     /\ client' = [client EXCEPT ![p] =
                     IF Truthy(sceneState.model)
                       THEN OnSceneActionRef(@, isLocalUpdateRef[p],
                                             Action("loadModel", sceneState.model, Undefined, Undefined))
                       ELSE @]
     /\ timeouts' = [timeouts EXCEPT ![p] = @ \cup InitTimeouts(sceneState)]
     /\ sceneInit' = [sceneInit EXCEPT ![p] = sceneState]
  /\ inbox' = [inbox EXCEPT ![p] = Tail(@)]
  /\ UNCHANGED <<outbox, sentLog, applied, received, isLocalUpdateRef,
                 peerConnections, offers, joinsSent>>
  /\ UNCHANGED serverVars

\* a timer of s.on("scene:init") comes due (the one of 100 ms before the one of
\* 150 ms): its action is handed to handleSceneAction
InitTimeout(p) ==
  /\ \E t \in timeouts[p] :
       /\ \/ t.callback = "initTransform"
          \/ /\ t.callback = "initCamera"
             /\ \A u \in timeouts[p] : u.callback # "initTransform"
       /\ timeouts' = [timeouts EXCEPT ![p] = @ \ {t}]
       /\ client' = [client EXCEPT ![p] = OnSceneActionRef(@, isLocalUpdateRef[p], t.action)]
  /\ UNCHANGED <<outbox, inbox, sentLog, applied, received, isLocalUpdateRef, sceneInit,
                 peerConnections, offers, joinsSent>>
  /\ UNCHANGED serverVars

\* the hook registers no listener for scene:model-incoming: the message is read
\* off the socket and nothing happens
OnModelIncoming(p) ==
  /\ inbox[p] # << >>
  /\ Head(inbox[p]).ev = "scene:model-incoming"
  /\ inbox' = [inbox EXCEPT ![p] = Tail(@)]
  /\ UNCHANGED <<outbox, client, sentLog, applied, received, isLocalUpdateRef, timeouts, sceneInit,
                 peerConnections, offers, joinsSent>>
  /\ UNCHANGED serverVars

(***************************************************************************)
(* WebRTC negotiation over the signalling relay.  Each handler awaits the  *)
(* browser's createOffer / setLocalDescription / createAnswer, which touch *)
(* nothing but the handler's own RTCPeerConnection; ICE candidates, which  *)
(* the browser produces, are left out.                                     *)
(***************************************************************************)
\* the events of the signalling channel
RtcEvents == {"user-connected", "signal"}

\* what the last handler emitted to socket q on the signalling channel, in order
SignalingTo(msgs, q) ==
  LET IsFor(m) == q \in m.to /\ m.ev \in RtcEvents
      Wire(i) == [ev |-> SelectSeq(msgs, IsFor)[i].ev, data |-> SelectSeq(msgs, IsFor)[i].data]
  IN  [i \in 1..Len(SelectSeq(msgs, IsFor)) |-> Wire(i)]

\* a connected client emits join once more: the server's handler takes the
\* event from any connected socket, any number of times
EmitJoin(p, roomId) ==
  /\ p \in sockets
  /\ joinsSent[p] < MaxJoins
  /\ outbox' = [outbox EXCEPT ![p] = Enqueue(@, << [ev |-> "join", arg |-> roomId] >>)]
  /\ joinsSent' = [joinsSent EXCEPT ![p] = @ + 1]
  /\ UNCHANGED <<inbox, client, sentLog, applied, received, isLocalUpdateRef, timeouts, sceneInit,
                 peerConnections, offers>>
  /\ UNCHANGED serverVars

\* the server handles the oldest message of a connection, a join; the presence
\* event travels to the other members
ServerJoinRtc(p) ==
  /\ outbox[p] # << >>
  /\ Head(outbox[p]).ev = "join"
  /\ Join(p, Head(outbox[p]).arg)
  /\ outbox' = [outbox EXCEPT ![p] = Tail(@)]
  /\ inbox' = [q \in DOMAIN inbox |-> Enqueue(inbox[q], SignalingTo(emitted', q))]
  /\ UNCHANGED <<client, sentLog, applied, received, isLocalUpdateRef, timeouts, sceneInit,
                 peerConnections, offers, joinsSent>>

\* the server handles the oldest message of a connection, a signal
ServerSignal(p) ==
  /\ outbox[p] # << >>
  /\ Head(outbox[p]).ev = "signal"
  /\ Signal(p, Head(outbox[p]).arg)
  /\ outbox' = [outbox EXCEPT ![p] = Tail(@)]
  /\ inbox' = [q \in DOMAIN inbox |-> Enqueue(inbox[q], SignalingTo(emitted', q))]
  /\ UNCHANGED <<client, sentLog, applied, received, isLocalUpdateRef, timeouts, sceneInit,
                 peerConnections, offers, joinsSent>>

\* s.emit("signal", { to, from: s.id, signal })
EmitSignal(p, to, type) ==
  outbox' = [outbox EXCEPT ![p] =
               Enqueue(@, << [ev |-> "signal",
                              arg |-> [to |-> to, from |-> p, signal |-> Obj([type |-> type])]] >>)]

\* s.on("user-connected"): a new RTCPeerConnection for userId replaces the one
\* the client had, and its offer is sent to userId
OnUserConnected(p) ==
  /\ inbox[p] # << >>
  /\ Head(inbox[p]).ev = "user-connected"
  /\ LET userId == Head(inbox[p]).data.v IN
     /\ peerConnections' = [peerConnections EXCEPT ![p] = Put(@, userId, "have-local-offer")]
     /\ EmitSignal(p, userId, "offer")
     /\ offers' = [offers EXCEPT ![<<p, userId>>] = @ + 1]
  /\ inbox' = [inbox EXCEPT ![p] = Tail(@)]
  /\ UNCHANGED <<client, sentLog, applied, received, isLocalUpdateRef, timeouts, sceneInit,
                 joinsSent>>
  /\ UNCHANGED serverVars

\* s.on("signal"): the connection for from is the one the client has, or a new
\* one; an offer is answered, an answer completes the client's own offer
OnSignal(p) ==
  /\ inbox[p] # << >>
  /\ Head(inbox[p]).ev = "signal"
  /\ LET from == Head(inbox[p]).data.from
         signal == Head(inbox[p]).data.signal.v
     IN  /\ peerConnections' = [peerConnections EXCEPT ![p] = Put(@, from, "stable")]
         /\ IF signal.type = "offer"
              THEN EmitSignal(p, from, "answer")
              ELSE UNCHANGED outbox
  /\ inbox' = [inbox EXCEPT ![p] = Tail(@)]
  /\ UNCHANGED <<client, sentLog, applied, received, isLocalUpdateRef, timeouts, sceneInit,
                 offers, joinsSent>>
  /\ UNCHANGED serverVars

(***************************************************************************)
(* The inputs clients send.                                                *)
(***************************************************************************)
T1 == Obj([position |-> "a", rotation |-> "a", scale |-> "a"])
T2 == Obj([position |-> "b", rotation |-> "b", scale |-> "b"])
C1 == Obj("C1")

\* what a client's controls produce: the user drags the model, then the camera,
\* then the model again, and each pose differs from the ones before
Stamp == << "1", "2", "3", "4" >>
ClientAction(p, k) ==
  IF k % 2 = 1
    THEN Action("transform", Obj([position |-> p, rotation |-> Stamp[k], scale |-> Stamp[k]]),
                Undefined, Undefined)
    ELSE Action("camera", Obj([position |-> p, target |-> Stamp[k]]), Undefined, Undefined)

\* signal messages: an offer or a missing signal, addressed to a connection id or
\* to any other room name
SignalData ==
  [to : Peers \cup SharedIds, from : {PeerName[1]}, signal : {Obj("offer"), Null}]

\* gesture messages
GestureData == {[gesture |-> "pinch"], Null}

\* chunk messages of an upload of MaxChunks chunks, and a missing argument
ChunkData ==
  [index : 0..(MaxChunks - 1), total : {MaxChunks}, roomId : SceneRoomIds] \cup {Null}

\* an action that is a string or a number: every property read gives undefined
Primitive == Action("undefined", Undefined, Undefined, Undefined)

\* an action to which the client added a from field
WithFrom(action, id) ==
  [f \in DOMAIN action \cup {"from"} |-> IF f = "from" THEN id ELSE action[f]]

\* room-lifecycle specification: one model, and clear
RoomActions ==
  { Action("loadModel", Str("X"), Undefined, Undefined),
    Action("clear", Undefined, Undefined, Undefined) }

\* scene-editing specification: every action type, payloads that are present, empty
\* and missing, with and without metadata, with and without a stray transform field
SceneActions ==
  { Action("loadModel", pl, md, tr) :
      pl \in {Str("X"), Str("YY"), Str(""), Undefined},
      md \in {Undefined, Obj([name |-> "a.glb"])},
      tr \in {Undefined, T1} }
  \cup { Action("transform", tr, Undefined, Undefined) : tr \in {T1, T2} }
  \cup { Action("camera", C1, Undefined, Undefined),
         Action("clear", Undefined, Undefined, Undefined),
         Action("rotate", T1, Undefined, Undefined),
         WithFrom(Action("clear", Undefined, Undefined, Undefined), PeerName[2]),
         Primitive,
         Null }

(***************************************************************************)
(* Specifications.                                                         *)
(***************************************************************************)
Init ==
  /\ sockets = {}
  /\ closed = {}
  /\ rooms = [r \in AllRooms |-> {}]
  /\ roomScenes = EmptyMap
  /\ socketRooms = EmptyMap
  /\ microtasks = << >>
  /\ emitted = << >>
  /\ last = [ type |-> "init", peer |-> "", room |-> "", action |-> NoAction,
              ack |-> NoAck, scene |-> Undefined, members |-> {} ]
  /\ lastLoaded = EmptyMap
  /\ uploadProgress = EmptyMap
  /\ outbox = [p \in Peers |-> << >>]
  /\ inbox = [p \in Peers |-> << >>]
  /\ client = [p \in Peers |-> EmptyClient]
  /\ sentLog = [p \in Peers |-> << >>]
  /\ applied = << >>
  /\ received = [p \in Peers |-> << >>]
  /\ isLocalUpdateRef = [p \in Peers |-> FALSE]
  /\ timeouts = [p \in Peers |-> {}]
  /\ sceneInit = [p \in Peers |-> Null]
  /\ peerConnections = [p \in Peers |-> EmptyMap]
  /\ offers = [pair \in Peers \X Peers |-> 0]
  /\ joinsSent = [p \in Peers |-> 0]

\* room lifecycle: NumPeers connections and the rooms r1 and r2
Next ==
  \/ \E p \in Peers : Connect(p) /\ UNCHANGED clientVars
  \/ \E p \in Peers, roomId \in RoomIds : Join(p, roomId) /\ UNCHANGED clientVars
  \/ \E p \in Peers, action \in RoomActions : SceneAction(p, action) /\ UNCHANGED clientVars
  \/ \E p \in Peers : Disconnect(p) /\ UNCHANGED clientVars
  \/ RoomCleanup /\ UNCHANGED clientVars

Spec == Init /\ [][Next]_vars

\* scene editing: NumEditors connections in one room, every kind of action
NextScene ==
  \/ \E p \in Editors : Connect(p) /\ UNCHANGED clientVars
  \/ \E p \in Editors, roomId \in SceneRoomIds : Join(p, roomId) /\ UNCHANGED clientVars
  \/ \E p \in Editors, action \in SceneActions : SceneAction(p, action) /\ UNCHANGED clientVars
  \/ \E p \in Editors : Disconnect(p) /\ UNCHANGED clientVars
  \/ RoomCleanup /\ UNCHANGED clientVars

SpecScene == Init /\ [][NextScene]_vars

\* shared namespace: NumPeers connections, room r1 and a room named like a socket
NextShared ==
  \/ \E p \in Peers : Connect(p) /\ UNCHANGED clientVars
  \/ \E p \in Peers, roomId \in SharedIds : Join(p, roomId) /\ UNCHANGED clientVars
  \/ \E p \in Peers, action \in RoomActions : SceneAction(p, action) /\ UNCHANGED clientVars
  \/ \E p \in Peers, data \in SignalData : Signal(p, data) /\ UNCHANGED clientVars
  \/ \E p \in Peers, data \in GestureData : Gesture(p, data) /\ UNCHANGED clientVars
  \/ \E p \in Peers : Disconnect(p) /\ UNCHANGED clientVars
  \/ RoomCleanup /\ UNCHANGED clientVars

SpecShared == Init /\ [][NextShared]_vars

\* uploads: NumEditors connections in one room that send chunks and actions
NextUpload ==
  \/ \E p \in Editors : Connect(p) /\ UNCHANGED clientVars
  \/ \E p \in Editors, roomId \in SceneRoomIds : Join(p, roomId) /\ UNCHANGED clientVars
  \/ \E p \in Editors, data \in ChunkData : ModelChunk(p, data) /\ UNCHANGED clientVars
  \/ \E p \in Editors, action \in RoomActions : SceneAction(p, action) /\ UNCHANGED clientVars
  \/ \E p \in Editors : Disconnect(p) /\ UNCHANGED clientVars
  \/ RoomCleanup /\ UNCHANGED clientVars

SpecUpload == Init /\ [][NextUpload]_vars

\* replicas: two clients of one room, each sends up to MaxSends transform and
\* camera actions; the messages are in flight between the handlers
NextReplica ==
  \/ \E p \in Replicas, roomId \in SceneRoomIds : ClientConnect(p, roomId)
  \/ \E p \in Replicas : ServerJoin(p)
  \/ \E p \in Replicas : SendSceneAction(p, ClientAction(p, Len(sentLog[p]) + 1))
  \/ \E p \in Replicas : ServerSceneAction(p)
  \/ \E p \in Replicas : OnSceneUpdate(p)

SpecReplica == Init /\ [][NextReplica]_vars

\* gestures: the first client updates the scene with hand gestures, the second
\* with the controls
NextGesture ==
  \/ \E p \in Replicas, roomId \in SceneRoomIds : ClientConnect(p, roomId)
  \/ \E p \in Replicas : ServerJoin(p)
  \/ ApplyAndBroadcast(PeerName[1], ClientAction(PeerName[1], Len(sentLog[PeerName[1]]) + 1))
  \/ SendSceneAction(PeerName[2], ClientAction(PeerName[2], Len(sentLog[PeerName[2]]) + 1))
  \/ \E p \in Replicas : ResetLocalUpdate(p)
  \/ \E p \in Replicas : ServerSceneAction(p)
  \/ \E p \in Replicas : OnSceneUpdate(p)

SpecGesture == Init /\ [][NextGesture]_vars

\* late join: the first client is in room r1, which holds model X with the
\* transform T1 and the camera C1, and goes on editing with the controls; the
\* second client connects and joins at any moment
Host == PeerName[1]
Joiner == PeerName[2]
LoadedScene ==
  [ model |-> Str("X"), modelMetadata |-> Obj([name |-> "model.glb"]),
    transform |-> T1, camera |-> C1 ]

InitLate ==
  /\ sockets = {Host}
  /\ closed = {}
  /\ rooms = [r \in AllRooms |-> IF r \in {Host} \cup SceneRoomIds THEN {Host} ELSE {}]
  /\ roomScenes = [r \in SceneRoomIds |-> LoadedScene]
  /\ socketRooms = [q \in {Host} |-> CHOOSE r \in SceneRoomIds : TRUE]
  /\ microtasks = << >>
  /\ emitted = << >>
  /\ last = [ type |-> "init", peer |-> "", room |-> "", action |-> NoAction,
              ack |-> NoAck, scene |-> Undefined, members |-> {} ]
  /\ lastLoaded = [r \in SceneRoomIds |-> LoadedScene.model]
  /\ uploadProgress = EmptyMap
  /\ outbox = [p \in Peers |-> << >>]
  /\ inbox = [p \in Peers |-> << >>]
  /\ client = [p \in Peers |->
                IF p = Host
                  THEN [model |-> LoadedScene.model, transform |-> T1, camera |-> C1]
                  ELSE EmptyClient]
  /\ sentLog = [p \in Peers |-> << >>]
  /\ applied = << >>
  /\ received = [p \in Peers |-> << >>]
  /\ isLocalUpdateRef = [p \in Peers |-> FALSE]
  /\ timeouts = [p \in Peers |-> {}]
  /\ sceneInit = [p \in Peers |-> Null]
  /\ peerConnections = [p \in Peers |-> EmptyMap]
  /\ offers = [pair \in Peers \X Peers |-> 0]
  /\ joinsSent = [p \in Peers |-> IF p = Host THEN 1 ELSE 0]

NextLate ==
  \/ \E roomId \in SceneRoomIds : ClientConnect(Joiner, roomId)
  \/ ServerJoin(Joiner)
  \/ SendSceneAction(Host, ClientAction(Host, Len(sentLog[Host]) + 1))
  \/ ServerSceneAction(Host)
  \/ \E p \in {Host, Joiner} : OnSceneUpdate(p)
  \/ OnModelIncoming(Joiner)
  \/ OnSceneInit(Joiner)
  \/ InitTimeout(Joiner)

SpecLate == InitLate /\ [][NextLate]_vars

\* negotiation: the clients connect and join, a client may emit join again, and
\* the presence events, offers and answers are in flight between the handlers
NextRtc ==
  \/ \E p \in Replicas, roomId \in RoomIds : ClientConnect(p, roomId)
  \/ \E p \in Replicas, roomId \in RoomIds : EmitJoin(p, roomId)
  \/ \E p \in Replicas : ServerJoinRtc(p)
  \/ \E p \in Replicas : ServerSignal(p)
  \/ \E p \in Replicas : OnUserConnected(p)
  \/ \E p \in Replicas : OnSignal(p)

SpecRtc == Init /\ [][NextRtc]_vars

\* the transform action each peer sends in a race: the first peer sends T1, the
\* others T2
RaceAction(p) ==
  Action("transform", IF p = PeerName[1] THEN T1 ELSE T2, Undefined, Undefined)

\* racing transforms: NumPeers connections, rooms r1 and r2, every peer sends its
\* own transform action
NextRace ==
  \/ \E p \in Peers : Connect(p) /\ UNCHANGED clientVars
  \/ \E p \in Peers, roomId \in RoomIds : Join(p, roomId) /\ UNCHANGED clientVars
  \/ \E p \in Peers : SceneAction(p, RaceAction(p)) /\ UNCHANGED clientVars
  \/ \E p \in Peers : Disconnect(p) /\ UNCHANGED clientVars
  \/ RoomCleanup /\ UNCHANGED clientVars

SpecRace == Init /\ [][NextRace]_vars

(***************************************************************************)
(* Properties.                                                             *)
(***************************************************************************)
IsJoin == last.type = "join"
\* the last event is an action of this type sent by a peer that is in a room
IsAction(type) == last.type = "scene:action" /\ last.room # "" /\ last.action.type = type
Events(ev) == {i \in 1..Len(emitted) : emitted[i].ev = ev}
ReplayEvents == Events("scene:model-incoming") \cup Events("scene:init")

\* C1: once no disconnect cleanup is pending, every room that has a SceneState
\* record has at least one connected member.
C1_NoEmptyRoomPersists ==
  microtasks = << >> => \A roomId \in DOMAIN roomScenes : rooms[roomId] \cap sockets # {}

\* C2: room teardown is atomic with the last member's disconnect: while a cleanup
\* is pending no other handler runs, a joiner of a room that had no member observes
\* no SceneState of it (nothing is replayed), and a cleanup deletes no SceneState of
\* a room with a member.
C2_TeardownAtomic ==
  [][ /\ microtasks # << >> => last'.type = "cleanup"
      /\ (last'.type = "join" /\ last'.members = {}) => ReplayEvents' = {}
      /\ (last'.type = "cleanup" /\ Has(roomScenes, last'.room)
            /\ ~Has(roomScenes', last'.room)) => rooms[last'.room] = {}
    ]_vars

\* C3: each connected peer is a member of at most one room, the one the
\* peer-to-room lookup names.
C3_SingleRoomPerPeer ==
  \A p \in sockets :
    {roomId \in AllRooms \ {p} : p \in rooms[roomId]}
      \subseteq (IF Has(socketRooms, p) THEN {socketRooms[p]} ELSE {})

\* C4: a peer that joins a room after a loadModel with payload X was acknowledged
\* with success there (and no later loadModel or clear) is sent scene:model-incoming
\* and then scene:init with model X and the room's transform and camera.
C4_JoinerGetsLoadedModel ==
  (IsJoin /\ Has(lastLoaded, last.room)) =>
     /\ Len(emitted) >= 2
     /\ ReplayEvents = {1, 2}
     /\ emitted[1].ev = "scene:model-incoming" /\ emitted[1].to = {last.peer}
     /\ emitted[2].ev = "scene:init" /\ emitted[2].to = {last.peer}
     /\ emitted[2].data = [ model |-> lastLoaded[last.room],
                            transform |-> roomScenes[last.room].transform,
                            camera |-> roomScenes[last.room].camera ]

\* C5: a peer that joins a room whose SceneState.model is null is sent neither
\* scene:model-incoming nor scene:init by the join.
C5_NoReplayWithoutModel ==
  (IsJoin /\ roomScenes[last.room].model = Null) => ReplayEvents = {}

\* C5 witness: a join to a room that holds a transform and a camera but no model
C5_Witness ==
  /\ IsJoin
  /\ roomScenes[last.room].model = Null
  /\ roomScenes[last.room].transform # Null
  /\ roomScenes[last.room].camera # Null
  /\ ReplayEvents = {}

\* C6: when P joins R, user-connected with P's id goes to every other current
\* member of R and to no one else.
C6_UserConnectedToOtherMembers ==
  IsJoin =>
    /\ Cardinality(Events("user-connected")) = 1
    /\ \A i \in Events("user-connected") :
         /\ emitted[i].data = Str(last.peer)
         /\ emitted[i].to = {q \in sockets \ {last.peer} :
                               Has(socketRooms, q) /\ socketRooms[q] = last.room}

\* C7: a join(R) by a peer that is already a member of R leaves R's member set and
\* SceneState unchanged, and re-sends the state when R has a model.
C7_RejoinIdempotent ==
  (IsJoin /\ last.peer \in last.members) =>
     /\ rooms[last.room] = last.members
     /\ roomScenes[last.room] = last.scene
     /\ (last.scene # Undefined /\ last.scene.model.t = "string") =>
          /\ Len(emitted) >= 2
          /\ emitted[1].ev = "scene:model-incoming" /\ emitted[1].to = {last.peer}
          /\ emitted[2].ev = "scene:init" /\ emitted[2].to = {last.peer}
          /\ emitted[2].data.model = last.scene.model

\* C8: join creates a SceneState only when the room has none, all of its fields
\* null; a join to a room that has a SceneState leaves it unchanged.
C8_JoinCreatesOnlyWhenAbsent ==
  IsJoin =>
    roomScenes[last.room] = IF last.scene = Undefined THEN EmptyScene ELSE last.scene

\* C8 witness: a join to a room whose SceneState held a model and a transform
C8_Witness ==
  /\ IsJoin
  /\ last.scene # Undefined
  /\ roomScenes[last.room].model = Str("X")
  /\ roomScenes[last.room].transform # Null

\* C9: after a successful loadModel the room's SceneState is exactly the payload,
\* the supplied or the default metadata, and a null transform and camera.
C9_LoadModelReplaces ==
  (IsAction("loadModel") /\ last.ack.success) =>
     roomScenes[last.room] =
       [ model |-> last.action.payload,
         modelMetadata |->
           IF last.action.metadata # Undefined
             THEN last.action.metadata
             ELSE Obj([name |-> "unknown", size |-> Len(last.action.payload.v)]),
         transform |-> Null,
         camera |-> Null ]

\* C9 witness: a successful loadModel that carried a stray transform field, in a
\* room that held a transform and a camera
C9_Witness ==
  /\ IsAction("loadModel")
  /\ last.ack.success
  /\ last.action.payload = Str("YY")
  /\ last.action.transform # Undefined
  /\ last.scene # Undefined
  /\ last.scene.transform # Null
  /\ last.scene.camera # Null
  /\ roomScenes[last.room].transform = Null

\* C10: after clear the room's SceneState is all null, whatever preceded it, and a
\* second clear changes nothing.
C10_ClearResets ==
  IsAction("clear") =>
    /\ last.ack.success
    /\ roomScenes[last.room] = EmptyScene
    /\ (last.scene = EmptyScene => roomScenes[last.room] = last.scene)

\* C10 witness: a clear of a room that held a model, a transform and a camera
C10_Witness ==
  /\ IsAction("clear")
  /\ last.scene # Undefined
  /\ last.scene.model = Str("X")
  /\ last.scene.transform # Null
  /\ last.scene.camera # Null
  /\ roomScenes[last.room] = EmptyScene

\* C11: a successful transform action of a joined peer sets the room's transform to
\* the payload and leaves model, modelMetadata and camera as they were; a successful
\* camera action sets camera and leaves model, modelMetadata and transform.
C11_PoseFrame ==
  /\ (IsAction("transform") /\ last.ack.success) =>
        /\ last.scene # Undefined
        /\ roomScenes[last.room].transform = last.action.payload
        /\ roomScenes[last.room].model = last.scene.model
        /\ roomScenes[last.room].modelMetadata = last.scene.modelMetadata
        /\ roomScenes[last.room].camera = last.scene.camera
  /\ (IsAction("camera") /\ last.ack.success) =>
        /\ last.scene # Undefined
        /\ roomScenes[last.room].camera = last.action.payload
        /\ roomScenes[last.room].model = last.scene.model
        /\ roomScenes[last.room].modelMetadata = last.scene.modelMetadata
        /\ roomScenes[last.room].transform = last.scene.transform

\* C11 witness: a camera action in a room that holds a model and another transform
C11_Witness ==
  /\ IsAction("camera")
  /\ last.ack.success
  /\ last.scene # Undefined
  /\ last.scene.model = Str("X")
  /\ last.scene.transform = T2
  /\ last.scene.camera = Null
  /\ roomScenes[last.room].camera = C1

\* C12: when peers of a room race with transform actions, each is acknowledged with
\* success and, once the server has processed one, the stored transform is that
\* action's whole payload, field by field, whatever another peer wrote before.
C12_LastWriteWins ==
  IsAction("transform") =>
    /\ last.ack.success
    /\ roomScenes[last.room].transform \in {T1, T2}
    /\ \A f \in {"position", "rotation", "scale"} :
         roomScenes[last.room].transform.v[f] = RaceAction(last.peer).payload.v[f]

\* C12 witness: the second peer's transform T2 is processed in a room where the
\* first peer, still a member, had written T1
C12_Witness ==
  /\ IsAction("transform")
  /\ last.peer = PeerName[2]
  /\ last.scene # Undefined
  /\ last.scene.transform = T1
  /\ Has(socketRooms, PeerName[1])
  /\ socketRooms[PeerName[1]] = last.room
  /\ roomScenes[last.room].transform = T2

KnownTypes == {"loadModel", "transform", "camera", "clear"}
\* the last event is a scene:action whose type is none of the four known ones
IsUnknownAction ==
  last.type = "scene:action" /\ ~Nullish(last.action) /\ last.action.type \notin KnownTypes

\* C13 as stated: every scene:action of an unknown type, whoever sends it, is
\* answered {success: false, error: "Unknown action"}, emits nothing and leaves the
\* room's SceneState as it was.
C13_UnknownActionAnyone ==
  IsUnknownAction =>
    /\ last.ack = Ack(FALSE, "Unknown action")
    /\ emitted = << >>
    /\ last.room # "" => roomScenes[last.room] = last.scene

\* C13 amended: a scene:action of an unknown type sent by a peer that is in a room
\* is answered {success: false, error: "Unknown action"}, emits nothing and leaves
\* the room's SceneState as it was; from a peer in no room the answer is
\* {success: false, error: "Not in a room"}, and again nothing is emitted.
C13_UnknownAction ==
  IsUnknownAction =>
    /\ emitted = << >>
    /\ last.ack = IF last.room # "" THEN Ack(FALSE, "Unknown action")
                                   ELSE Ack(FALSE, "Not in a room")
    /\ last.room # "" => roomScenes[last.room] = last.scene

\* C13 witness: an unknown action in a room of two peers that holds a model
C13_Witness ==
  /\ IsUnknownAction
  /\ last.room # ""
  /\ Cardinality(last.members) = 2
  /\ last.scene.model = Str("X")
  /\ last.ack = Ack(FALSE, "Unknown action")

\* C14: a scene:action of a connected peer that is in no room is acknowledged with
\* success false, emits nothing and changes no room's SceneState.
C14_NotInRoom ==
  [][(last'.type = "scene:action" /\ last'.room = "") =>
       /\ ~last'.ack.success
       /\ emitted' = << >>
       /\ roomScenes' = roomScenes]_vars

\* C14 witness: a loadModel of a peer that is in no room, while a room with a
\* member and a model exists
C14_Witness ==
  /\ last.type = "scene:action"
  /\ last.room = ""
  /\ last.action = Action("loadModel", Str("YY"), Undefined, Undefined)
  /\ last.peer \in sockets
  /\ Has(roomScenes, "r1")
  /\ roomScenes["r1"].model = Str("X")
  /\ rooms["r1"] # {}

\* the last event is a malformed scene:action of a joined peer: a null action, or
\* a loadModel whose payload is missing
IsMalformed ==
  \/ last.type = "uncaughtException"
  \/ IsAction("loadModel") /\ Thrown(last.action)

\* C15: every malformed scene:action of a joined peer is caught inside the handler:
\* the server keeps running, the sender is acknowledged with success false, stays
\* connected and stays a member of its room.
C15_MalformedCaught ==
  IsMalformed =>
    /\ Running
    /\ last.ack = Ack(FALSE, "TypeError")
    /\ last.peer \in sockets
    /\ Has(socketRooms, last.peer)
    /\ socketRooms[last.peer] = last.room
    /\ last.peer \in rooms[last.room]

\* C16: a scene:action acknowledged with success false left the room's SceneState
\* as it was before the action and emitted nothing.
C16_AllOrNothing ==
  (last.type = "scene:action" /\ last.room # "" /\ ~last.ack.success) =>
    /\ roomScenes[last.room] = last.scene
    /\ emitted = << >>

\* the messages a scene:action caused that carry a from field
Attributed == Events("scene:update") \cup Events("scene:model-incoming")

\* C17: every scene:update and scene:model-incoming caused by a scene:action
\* carries as from the connection id of the peer that sent the action, whatever
\* fields the action itself has.
C17_FromIsSender ==
  last.type = "scene:action" =>
    \A i \in Attributed : emitted[i].data.from = last.peer

\* C17 witness: an action that names another peer in a from field of its own is
\* broadcast to that peer with the sender's id
C17_Witness ==
  /\ last.type = "scene:action"
  /\ last.room # ""
  /\ "from" \in DOMAIN last.action
  /\ last.action.from = PeerName[2]
  /\ last.peer = PeerName[1]
  /\ Attributed # {}
  /\ \A i \in Attributed : PeerName[2] \in emitted[i].to /\ emitted[i].data.from = PeerName[1]

\* the peers whose current room is roomId
MembersOf(roomId) == {q \in sockets : Has(socketRooms, q) /\ socketRooms[q] = roomId}

C19_LoadModelOrder ==
  IsAction("loadModel") =>
    /\ last.ack.success =>
         /\ Len(emitted) = 2
         /\ emitted[1].ev = "scene:model-incoming"
         /\ emitted[2].ev = "scene:update"
         /\ emitted[1].to = emitted[2].to
         /\ emitted[2].to = rooms[last.room]
         /\ emitted[2].data.action = last.action
    /\ emitted # << >> =>
         /\ roomScenes[last.room].model = last.action.payload
         /\ last.ack.success

\* C19 witness: a loadModel in a room of two peers, the notice and the update go to
\* both in this order
C19_Witness ==
  /\ IsAction("loadModel")
  /\ last.ack.success
  /\ last.action.payload = Str("YY")
  /\ Cardinality(rooms[last.room]) = 2
  /\ Len(emitted) = 2
  /\ emitted[1].ev = "scene:model-incoming"
  /\ emitted[1].to = rooms[last.room]
  /\ emitted[2].ev = "scene:update"

\* C20: a signal {to: T, signal: S} is delivered to at most one connection, the
\* one whose id is T, whatever T is and whoever has joined a room named T.
C20_SignalToOnePeer ==
  last.type = "signal" =>
    \A i \in Events("signal") : emitted[i].to \subseteq {last.room}

\* C21: a relayed signal {to: T, signal: S} of peer F reaches the connection T, when
\* it exists, as exactly one message {from: F, signal: S}; when no connection T
\* exists nothing is delivered to anyone.
C21_Relay ==
  last.type = "signal" =>
    IF last.room \in sockets
      THEN /\ Len(emitted) = 1
           /\ last.room \in emitted[1].to
           /\ emitted[1].data = [from |-> last.peer, signal |-> last.action]
      ELSE \A i \in 1..Len(emitted) : emitted[i].to = {}

\* C22: a signal addressed to the id of a peer that has disconnected or never
\* connected is dropped: it is delivered to nobody, the sender included, and the
\* server and the sender's connection keep working.
C22_SignalDropped ==
  (last.type = "signal" /\ last.room \in Peers \ sockets) =>
    /\ \A i \in 1..Len(emitted) : emitted[i].to = {}
    /\ Running
    /\ last.peer \in sockets

\* what peer q is sent by the last handler under the event name ev
Received(q, ev) == {i \in 1..Len(emitted) : emitted[i].ev = ev /\ q \in emitted[i].to}

\* C23: when peer P disconnects, every connected peer that is in a room P had joined
\* is sent exactly one user-disconnected carrying P's id, and the others none.
C23_UserDisconnected ==
  [][last'.type = "disconnect" =>
       \A q \in sockets' :
         /\ \A i \in Received(q, "user-disconnected")' : emitted'[i].data = Str(last'.peer)
         /\ Cardinality(Received(q, "user-disconnected")') =
              IF \E r \in RoomIds : {q, last'.peer} \subseteq rooms[r] THEN 1 ELSE 0]_vars

\* C24: the server holds no state keyed to a peer that has disconnected: no room
\* membership, no socketRooms entry and no uploadProgress entry.
C24_NoStateAfterDisconnect ==
  \A p \in closed :
    /\ ~Has(socketRooms, p)
    /\ \A r \in DOMAIN rooms : p \notin rooms[r]
    /\ \A key \in DOMAIN uploadProgress : key[1] # p

\* the last event is the disconnect of a member of a room, or the cleanup that
\* follows it, and the room still has a connected member
IsDeparture ==
  /\ last.type \in {"disconnect", "cleanup"}
  /\ last.room # ""
  /\ rooms[last.room] # {}

\* C25: the disconnect of a member of room R, another member staying connected,
\* leaves R's SceneState as it was, and a peer that joins R next is sent the model
\* that was loaded before the disconnect.
C25_DisconnectKeepsScene ==
  [][/\ (IsDeparture' /\ Has(roomScenes, last'.room)) =>
          /\ Has(roomScenes', last'.room)
          /\ roomScenes'[last'.room] = roomScenes[last'.room]
     /\ (IsDeparture /\ IsJoin' /\ last'.room = last.room /\ Has(lastLoaded, last.room)) =>
          \E i \in Events("scene:init")' :
             /\ last'.peer \in emitted'[i].to
             /\ emitted'[i].data.model = lastLoaded[last.room]]_vars

\* C28: a scene:model-chunk is answered with exactly one scene:chunk-ack carrying
\* its index, sent to the sender only, and changes no SceneState and no membership;
\* a scene:action leaves uploadProgress alone and its state change, emits and
\* acknowledgment are those computed from roomScenes, the roster and the action.
C28_ChunksObservational ==
  [][/\ last'.type = "scene:model-chunk" =>
          /\ emitted' = << Msg("scene:chunk-ack", {last'.peer}, [index |-> last'.action.index]) >>
          /\ UNCHANGED <<roomScenes, rooms, socketRooms>>
     /\ (last'.type = "scene:action" /\ last'.room # "") =>
          /\ UNCHANGED uploadProgress
          /\ roomScenes' = ApplyAction(roomScenes, last'.room, last'.action)
          /\ emitted' = Broadcasts(rooms, last'.peer, last'.room, last'.action)
          /\ last'.ack = ActionAck(last'.action)]_vars

\* C28 witness: the last chunk of an upload, sent by one of two members of a room
\* that holds a model, is acknowledged to its sender alone
C28_Witness ==
  /\ last.type = "scene:model-chunk"
  /\ last.action.index = MaxChunks - 1
  /\ Cardinality(rooms["r1"]) = 2
  /\ Has(roomScenes, "r1")
  /\ roomScenes["r1"].model = Str("X")
  /\ Has(uploadProgress, <<last.peer, "r1">>)
  /\ uploadProgress[<<last.peer, "r1">>] = [received |-> MaxChunks, total |-> MaxChunks]
  /\ emitted[1].to = {last.peer}

\* C29: the signal handler completes without an exception for every payload and
\* changes neither the roster, socketRooms, any SceneState nor uploadProgress.
C29_SignalOpaque ==
  [][(\E p \in Peers, data \in SignalData : Signal(p, data)) =>
       /\ Running'
       /\ UNCHANGED <<rooms, socketRooms, roomScenes, uploadProgress>>]_vars

\* C30: a scene:update, scene:model-incoming or gesture:action caused by a peer
\* whose current room is R is delivered only to peers whose current room is R.
C30_RoomIsolation ==
  (last.type \in {"scene:action", "gesture:action"} /\ last.room # "") =>
    \A i \in Events("scene:update") \cup Events("scene:model-incoming")
               \cup Events("gesture:action") :
       emitted[i].to \subseteq MembersOf(last.room)

IsPrefix(s, t) == Len(s) <= Len(t) /\ SubSeq(t, 1, Len(s)) = s
IsSuffix(s, t) == Len(s) <= Len(t) /\ SubSeq(t, Len(t) - Len(s) + 1, Len(t)) = s
\* the actions of peer p the server has applied, in the order it applied them
AppliedBy(p) ==
  LET Mine(e) == e.from = p
  IN  [i \in 1..Len(SelectSeq(applied, Mine)) |-> SelectSeq(applied, Mine)[i].action]
\* the scene:update messages in flight to peer q, oldest first
Pending(q) ==
  LET IsUpdate(m) == m.ev = "scene:update"
  IN  [i \in 1..Len(SelectSeq(inbox[q], IsUpdate)) |-> SelectSeq(inbox[q], IsUpdate)[i].data]
\* the transform actions the server has applied, in order
AppliedTransforms ==
  LET IsTransform(e) == e.action.type = "transform" IN SelectSeq(applied, IsTransform)

\* C26: the server applies the actions of a peer in the order the peer sent them,
\* the SceneState holds the transform applied last, and the scene:update messages
\* a member has handled or has in flight are, in the same order, the actions the
\* server applied since the member joined.
C26_Ordering ==
  /\ \A p \in Peers : IsPrefix(AppliedBy(p), sentLog[p])
  /\ \A q \in Peers : IsSuffix(received[q] \o Pending(q), applied)
  /\ \A r \in DOMAIN roomScenes :
       AppliedTransforms # << >> =>
         roomScenes[r].transform = AppliedTransforms[Len(AppliedTransforms)].action.payload

\* C26 witness: two peers have each sent two actions, the server applied them
\* interleaved, and a member has handled all four updates
C26_Witness ==
  /\ Len(applied) = 4
  /\ applied[1].from # applied[2].from
  /\ applied[2].from # applied[3].from
  /\ \E q \in Peers : received[q] = applied

\* every message has been handled, and every client has handled every update
AllDelivered ==
  /\ \A p \in Peers : outbox[p] = << >> /\ inbox[p] = << >>
  /\ \A p \in sockets : Has(socketRooms, p) /\ received[p] = applied

\* C27: once two members of a room have sent transform actions concurrently and
\* every message has been delivered, each member's client shows the transform that
\* the room's SceneState holds.
C27_ReplicasAgree ==
  (AllDelivered /\ AppliedTransforms # << >>) =>
    \A p \in sockets : client[p].transform = roomScenes[socketRooms[p]].transform

(***************************************************************************)
(* C31: in every reachable state, every connected peer with a peer-to-room *)
(* entry for room R finds a SceneState record for R, so the                *)
(* `if (roomScenes[roomId])` guard of transform and camera is never false  *)
(* for a joined peer: a transform or camera action that was acknowledged   *)
(* with success is stored in the record of the sender's room.              *)
(***************************************************************************)
C31_RecordPresent ==
  /\ \A p \in sockets : Has(socketRooms, p) => Has(roomScenes, socketRooms[p])
  /\ (IsAction("transform") /\ last.ack.success)
       => /\ last.scene # Undefined
          /\ Has(roomScenes, last.room)
          /\ roomScenes[last.room].transform = last.action.payload
  /\ (IsAction("camera") /\ last.ack.success)
       => /\ last.scene # Undefined
          /\ Has(roomScenes, last.room)
          /\ roomScenes[last.room].camera = last.action.payload

\* the continuation of allSockets() ran for a room that a connected peer is
\* still joined to, and the record of the room is there
C31_Witness ==
  /\ last.type = "cleanup"
  /\ \E p \in sockets : Has(socketRooms, p) /\ socketRooms[p] = last.room
  /\ Has(roomScenes, last.room)

\* the actions broadcast as scene:update by the last handler, in order
UpdatesOf(msgs) == SelectSeq(msgs, LAMBDA m : m.ev = "scene:update")

\* one step of the replica: the record of a room that the handler creates is the
\* empty state; the record of a room changes only in a step that broadcasts one
\* scene:update in that room, and then into the state that applying the
\* broadcast action gives; a step that broadcasts an action has applied it
ReplicaStep ==
  LET ups == UpdatesOf(emitted') IN
  /\ \A r \in DOMAIN roomScenes' \ DOMAIN roomScenes : roomScenes'[r] = EmptyScene
  /\ \A r \in DOMAIN roomScenes' \cap DOMAIN roomScenes :
       roomScenes'[r] # roomScenes[r] => (ups # << >> /\ r = last'.room)
  /\ ups # << >> =>
       /\ Len(ups) = 1
       /\ last'.type = "scene:action"
       /\ Has(roomScenes, last'.room) /\ Has(roomScenes', last'.room)
       /\ roomScenes'[last'.room]
            = ApplyAction(roomScenes, last'.room, ups[1].data.action)[last'.room]

(***************************************************************************)
(* C32: replica consistency.  For every room, between events, the server's *)
(* SceneState is the state obtained from the empty state at room creation  *)
(* by applying, in order, exactly the actions broadcast as scene:update in *)
(* that room: the state never changes without a matching broadcast and no  *)
(* action is broadcast that was not applied.                               *)
(***************************************************************************)
C32_ReplicaConsistency == [][ReplicaStep]_vars

(***************************************************************************)
(* C33: client echo suppression drops own actions only.  A scene:update    *)
(* delivered to a client is discarded exactly when its from field is the   *)
(* client's own connection id; every scene:update of another peer is       *)
(* applied to the client's scene, also when it arrives right after a local *)
(* gesture update of the client (while isLocalUpdateRef is set).           *)
(***************************************************************************)
C33_EchoSuppression ==
  [][\A p \in Replicas :
       OnSceneUpdate(p) =>
         LET data == Head(inbox[p]).data IN
         client'[p] = IF data.from = p
                        THEN client[p]
                        ELSE HandleSceneAction(client[p], data.action)]_vars

\* the pose a transform value puts the model in: without a transform the model
\* stands as it was loaded
Pose(transform) == IF Nullish(transform) THEN InitialTransform ELSE transform

\* nothing is in flight for client p: the server has handled every message sent
\* to it, p has handled every message sent to p and every timer of p has run
Settled(p) ==
  /\ \A q \in Peers : outbox[q] = << >>
  /\ inbox[p] = << >>
  /\ timeouts[p] = {}
  /\ microtasks = << >>

(***************************************************************************)
(* C34: a late joiner ends in the server's state.  After a joining client  *)
(* has handled scene:init, the deferred application of the snapshot's      *)
(* transform and camera, and every scene:update delivered after it, the    *)
(* transform and camera applied in that client equal the transform and     *)
(* camera of the server's SceneState: no transform of a scene:update is    *)
(* overwritten by the older transform of the snapshot.                     *)
(***************************************************************************)
C34_LateJoiner ==
  \A p \in sockets :
    (Has(socketRooms, p) /\ sceneInit[p] # Null /\ Settled(p)) =>
      /\ Pose(client[p].transform) = Pose(roomScenes[socketRooms[p]].transform)
      /\ client[p].camera = roomScenes[socketRooms[p]].camera

\* the peers a and b are members of one room and nothing is in flight
Negotiated(a, b) ==
  /\ Has(socketRooms, a) /\ Has(socketRooms, b)
  /\ socketRooms[a] = socketRooms[b]
  /\ \A q \in Peers : outbox[q] = << >> /\ inbox[q] = << >>

(***************************************************************************)
(* C35: WebRTC negotiation has one initiator per pair.  For every two      *)
(* members A and B of a room exactly one offer is initiated between them,  *)
(* by the peer that was a member when the other joined, and the joiner     *)
(* only answers: no sequence of joins, a repeated join of the same room    *)
(* included, makes both send offers or one peer send a second offer for    *)
(* the same pair.                                                          *)
(***************************************************************************)
C35_OneInitiator ==
  \A a, b \in Peers :
    a # b =>
      /\ offers[<<a, b>>] + offers[<<b, a>>] <= 1
      /\ Negotiated(a, b) => offers[<<a, b>>] + offers[<<b, a>>] = 1

====
